---------------------------- MODULE Spec2Model ----------------------------
(***************************************************************************)
(* A model of child_weight.cpp: the dynamic weight model for children of   *)
(* Hall et al., integrated with a fixed-step Runge-Kutta 4 scheme          *)
(* (class Child: two constructors, the closure functions, rk4).            *)
(*                                                                         *)
(* Numbers.  Every `double` of the source is a binary floating-point       *)
(* number here too: a pair <<m, e>> standing for m * 2^e with a MantBits   *)
(* bit significand (2^(MantBits-1) <= |m| < 2^MantBits, or <<0, 0>>), and  *)
(* every arithmetic operation rounds its exact result to the nearest such  *)
(* number, ties to even, as IEEE 754 does.  The source's double has 53     *)
(* bits; the model keeps the same operations in the same order at a width  *)
(* that 32-bit integer arithmetic can carry.  Exponents are unbounded (no  *)
(* overflow, no subnormals, no NaN): the inputs are kept away from those.  *)
(***************************************************************************)
EXTENDS Integers, Sequences, FiniteSets, TLC

\* Width of the significand of the model's floating-point numbers.
MantBits == 14

--------------------------------------------------------------------------
(* Floating-point arithmetic *)

Abs(n) == IF n < 0 THEN -n ELSE n

Sgn(n) == IF n < 0 THEN -1 ELSE 1

\* Number of binary digits of a >= 1 (a < 2^31).
BitLen(a) == CHOOSE k \in 1..31 : a \div (2^(k-1)) = 1

\* The exact value m * 2^e rounded to MantBits bits, nearest, ties to even.
\* RoundCarry: the significand q1 after rounding may have reached
\* 2^MantBits.  RoundTies: q and r are the kept and the dropped digits of
\* |m|, s the number of dropped ones.  RoundBits: k is the length of |m|.
RoundCarry(m, e, q1) ==
    IF q1 = 2^MantBits
    THEN <<Sgn(m) * 2^(MantBits - 1), e + 1>>
    ELSE <<Sgn(m) * q1, e>>

RoundTies(m, e, s, q, r) ==
    RoundCarry(m, e + s,
               IF 2 * r > 2^s \/ (2 * r = 2^s /\ q % 2 = 1)
               THEN q + 1 ELSE q)

RoundBits(m, e, k) ==
    IF k <= MantBits
    THEN <<m * 2^(MantBits - k), e - (MantBits - k)>>
    ELSE RoundTies(m, e, k - MantBits, Abs(m) \div 2^(k - MantBits),
                   Abs(m) % 2^(k - MantBits))

Round(m, e) == IF m = 0 THEN <<0, 0>> ELSE RoundBits(m, e, BitLen(Abs(m)))

\* An integer literal (|n| < 2^31) as a double.
fInt(n) == Round(n, 0)

\* A decimal literal n/d of the source (n, d > 0), correctly rounded:
\* the quotient to 30 digits with a sticky digit, then rounded.
DecRound(num, d, e) ==
    Round(2 * (num \div d) + (IF num % d = 0 THEN 0 ELSE 1), e)

Dec(n, d) == DecRound(n * 2^(30 - BitLen(n)), d, BitLen(n) - 31)

fNeg(x) == <<-x[1], x[2]>>

\* x + y.  fAddAligned: hi has the larger exponent, by d.
fAddAligned(hi, lo, d) ==
    IF d > MantBits + 2 THEN hi ELSE Round(hi[1] * 2^d + lo[1], lo[2])

fAdd(x, y) ==
    IF x[1] = 0 THEN y
    ELSE IF y[1] = 0 THEN x
    ELSE fAddAligned(IF x[2] >= y[2] THEN x ELSE y,
                     IF x[2] >= y[2] THEN y ELSE x, Abs(x[2] - y[2]))

\* x - y
fSub(x, y) == fAdd(x, fNeg(y))

\* x * y
fMul(x, y) == Round(x[1] * y[1], x[2] + y[2])

\* x / y  (y # 0): the quotient of the significands with a sticky digit,
\* then rounded.
fDivRound(num, den, sg, e) ==
    Round(sg * (2 * (num \div den) + (IF num % den = 0 THEN 0 ELSE 1)), e)

fDiv(x, y) ==
    IF x[1] = 0 THEN <<0, 0>>
    ELSE fDivRound(Abs(x[1]) * 2^(MantBits + 2), Abs(y[1]),
                   Sgn(x[1]) * Sgn(y[1]), x[2] - y[2] - (MantBits + 3))

\* x < y, x >= y as the source compares doubles
fLt(x, y) == fSub(x, y)[1] < 0

fGe(x, y) == ~fLt(x, y)

\* floor(x) converted to int
fFloor(x) ==
    IF x[2] >= 0 THEN x[1] * 2^(x[2])
    ELSE IF x[2] < -30 THEN (IF x[1] < 0 THEN -1 ELSE 0)
    ELSE x[1] \div 2^(-x[2])

RECURSIVE ExpSeries(_, _, _, _)
RECURSIVE PowN(_, _)

\* exp(x).  x is reduced to k*ln(2) + r on a 2^-15 grid (fExpGrid is x on
\* the grid, 22713 is ln(2) on it) and exp(r) summed from its series
\* there; the result is rounded to a double.  (The libm exp is accurate to
\* within a unit in the last place; so is this one.)
ExpSeries(r, n, term, acc) ==
    IF term = 0 \/ n > 12 THEN acc
    ELSE LET next == (2 * term * r + 32768 * n) \div (2 * 32768 * n)
         IN  ExpSeries(r, n + 1, next, acc + next)

fExpGrid(x) ==
    IF x[2] + 15 >= 0 THEN x[1] * 2^(x[2] + 15)
    ELSE IF x[2] + 15 < -30 THEN (IF x[1] < 0 THEN -1 ELSE 0)
    ELSE x[1] \div 2^(-(x[2] + 15))

fExpSplit(xf, k) ==
    Round(ExpSeries(xf - k * 22713, 1, 32768, 32768), k - 15)

fExpReduce(xf) == fExpSplit(xf, (2 * xf + 22713) \div (2 * 22713))

fExp(x) == fExpReduce(fExpGrid(x))

\* pow(x, n) for an exponent n that is a whole number >= 0 (the source
\* calls pow with 2, with h = 10.0 and with 1/nu_logistic; the inputs keep
\* the last one whole): repeated squaring, each product rounded.
PowOdd(x, n, sq) == IF n % 2 = 0 THEN sq ELSE fMul(sq, x)

PowSquare(x, n, hlf) == PowOdd(x, n, fMul(hlf, hlf))

PowN(x, n) ==
    IF n = 0 THEN fInt(1)
    ELSE IF n = 1 THEN x
    ELSE PowSquare(x, n, PowN(x, n \div 2))

fPow(x, y) == PowN(x, fFloor(y))

--------------------------------------------------------------------------
(* Reference tables of FFMReference and FMReference *)

\* ffm_ref, mean values (lines 170-186): row r+1 holds the literals of row r, males and
\* females alternating, for rows 4..16 per BMI category 1..4.
ffm_ref_mean ==
  <<
    <<Dec(10134, 1000), Dec(9477, 1000)>>,
    <<Dec(12099, 1000), Dec(11494, 1000)>>,
    <<Dec(140, 10), Dec(132, 10)>>,
    <<Dec(1572, 100), Dec(1486, 100)>>,
    <<Dec(127942, 10000), Dec(137957, 10000), Dec(170238, 10000), Dec(152337, 10000),
      Dec(193070, 10000), Dec(177866, 10000), Dec(222248, 10000), Dec(212170, 10000)>>,
    <<Dec(178106, 10000), Dec(184835, 10000), Dec(190775, 10000), Dec(175198, 10000),
      Dec(203344, 10000), Dec(189406, 10000), Dec(231765, 10000), Dec(222733, 10000)>>,
    <<Dec(203597, 10000), Dec(185363, 10000), Dec(204774, 10000), Dec(196317, 10000),
      Dec(221128, 10000), Dec(216080, 10000), Dec(258151, 10000), Dec(251641, 10000)>>,
    <<Dec(193668, 10000), Dec(170314, 10000), Dec(223768, 10000), Dec(213680, 10000),
      Dec(267714, 10000), Dec(261791, 10000), Dec(313143, 10000), Dec(301484, 10000)>>,
    <<Dec(239096, 10000), Dec(191085, 10000), Dec(248998, 10000), Dec(240922, 10000),
      Dec(304866, 10000), Dec(303541, 10000), Dec(341717, 10000), Dec(352838, 10000)>>,
    <<Dec(235033, 10000), Dec(233318, 10000), Dec(275943, 10000), Dec(282737, 10000),
      Dec(326556, 10000), Dec(341915, 10000), Dec(382638, 10000), Dec(370428, 10000)>>,
    <<Dec(247662, 10000), Dec(259357, 10000), Dec(315163, 10000), Dec(319490, 10000),
      Dec(375262, 10000), Dec(370654, 10000), Dec(423513, 10000), Dec(425446, 10000)>>,
    <<Dec(289497, 10000), Dec(302351, 10000), Dec(363432, 10000), Dec(343348, 10000),
      Dec(416549, 10000), Dec(391559, 10000), Dec(481398, 10000), Dec(440205, 10000)>>,
    <<Dec(339297, 10000), Dec(336380, 10000), Dec(409730, 10000), Dec(361797, 10000),
      Dec(480671, 10000), Dec(409960, 10000), Dec(501084, 10000), Dec(460726, 10000)>>,
    <<Dec(352601, 10000), Dec(330539, 10000), Dec(437795, 10000), Dec(381065, 10000),
      Dec(493493, 10000), Dec(428965, 10000), Dec(556289, 10000), Dec(486841, 10000)>>,
    <<Dec(405041, 10000), Dec(329676, 10000), Dec(469540, 10000), Dec(401114, 10000),
      Dec(529435, 10000), Dec(456216, 10000), Dec(589917, 10000), Dec(497917, 10000)>>,
    <<Dec(420445, 10000), Dec(323827, 10000), Dec(478972, 10000), Dec(396064, 10000),
      Dec(558888, 10000), Dec(461784, 10000), Dec(587117, 10000), Dec(510534, 10000)>>,
    <<Dec(440779, 10000), Dec(355248, 10000), Dec(496930, 10000), Dec(412798, 10000),
      Dec(565725, 10000), Dec(459979, 10000), Dec(617620, 10000), Dec(498746, 10000)>>
  >>

\* ffm_ref, median values (lines 193-209): row r+1 holds the literals of row r, males and
\* females alternating, for rows 4..16 per BMI category 1..4.
ffm_ref_median ==
  <<
    <<Dec(10134, 1000), Dec(9477, 1000)>>,
    <<Dec(12099, 1000), Dec(11494, 1000)>>,
    <<Dec(140, 10), Dec(132, 10)>>,
    <<Dec(1572, 100), Dec(1486, 100)>>,
    <<Dec(144641, 10000), Dec(138627, 10000), Dec(171430, 10000), Dec(151282, 10000),
      Dec(192280, 10000), Dec(176859, 10000), Dec(219501, 10000), Dec(204992, 10000)>>,
    <<Dec(163729, 10000), Dec(166347, 10000), Dec(182285, 10000), Dec(172507, 10000),
      Dec(217099, 10000), Dec(200341, 10000), Dec(249713, 10000), Dec(234162, 10000)>>,
    <<Dec(180019, 10000), Dec(172583, 10000), Dec(199148, 10000), Dec(194286, 10000),
      Dec(246404, 10000), Dec(221758, 10000), Dec(274774, 10000), Dec(268346, 10000)>>,
    <<Dec(192548, 10000), Dec(175150, 10000), Dec(219058, 10000), Dec(212721, 10000),
      Dec(265243, 10000), Dec(256952, 10000), Dec(308636, 10000), Dec(292900, 10000)>>,
    <<Dec(239096, 10000), Dec(201493, 10000), Dec(248603, 10000), Dec(236199, 10000),
      Dec(299298, 10000), Dec(295716, 10000), Dec(341859, 10000), Dec(341346, 10000)>>,
    <<Dec(237557, 10000), Dec(240089, 10000), Dec(274756, 10000), Dec(282708, 10000),
      Dec(324980, 10000), Dec(328672, 10000), Dec(381778, 10000), Dec(375833, 10000)>>,
    <<Dec(241310, 10000), Dec(255209, 10000), Dec(312494, 10000), Dec(322679, 10000),
      Dec(377967, 10000), Dec(367435, 10000), Dec(428213, 10000), Dec(422971, 10000)>>,
    <<Dec(282941, 10000), Dec(326849, 10000), Dec(360685, 10000), Dec(337855, 10000),
      Dec(414671, 10000), Dec(386218, 10000), Dec(481462, 10000), Dec(435195, 10000)>>,
    <<Dec(337396, 10000), Dec(372420, 10000), Dec(409866, 10000), Dec(359762, 10000),
      Dec(479945, 10000), Dec(409744, 10000), Dec(509872, 10000), Dec(456421, 10000)>>,
    <<Dec(357472, 10000), Dec(322773, 10000), Dec(440430, 10000), Dec(382639, 10000),
      Dec(497454, 10000), Dec(431117, 10000), Dec(549071, 10000), Dec(481360, 10000)>>,
    <<Dec(418846, 10000), Dec(330258, 10000), Dec(468444, 10000), Dec(396752, 10000),
      Dec(533482, 10000), Dec(457056, 10000), Dec(585851, 10000), Dec(489594, 10000)>>,
    <<Dec(426661, 10000), Dec(316275, 10000), Dec(482625, 10000), Dec(395399, 10000),
      Dec(559614, 10000), Dec(472530, 10000), Dec(584194, 10000), Dec(507464, 10000)>>,
    <<Dec(428578, 10000), Dec(375435, 10000), Dec(494174, 10000), Dec(415349, 10000),
      Dec(567387, 10000), Dec(459623, 10000), Dec(636968, 10000), Dec(500229, 10000)>>
  >>

\* fm_ref, mean values (lines 242-258): row r+1 holds the literals of row r, males and
\* females alternating, for rows 4..16 per BMI category 1..4.
fm_ref_mean ==
  <<
    <<Dec(2456, 1000), Dec(2433, 1000)>>,
    <<Dec(2576, 1000), Dec(2606, 1000)>>,
    <<Dec(27, 10), Dec(28, 10)>>,
    <<Dec(366, 100), Dec(447, 100)>>,
    <<Dec(17764, 10000), Dec(25951, 10000), Dec(34540, 10000), Dec(38303, 10000),
      Dec(48055, 10000), Dec(57014, 10000), Dec(79672, 10000), Dec(93883, 10000)>>,
    <<Dec(23398, 10000), Dec(28164, 10000), Dec(35859, 10000), Dec(42782, 10000),
      Dec(54625, 10000), Dec(65960, 10000), Dec(84350, 10000), Dec(104148, 10000)>>,
    <<Dec(32767, 10000), Dec(30828, 10000), Dec(41138, 10000), Dec(52226, 10000),
      Dec(55455, 10000), Dec(73667, 10000), Dec(93266, 10000), Dec(120550, 10000)>>,
    <<Dec(23902, 10000), Dec(26538, 10000), Dec(41705, 10000), Dec(50218, 10000),
      Dec(66958, 10000), Dec(86945, 10000), Dec(115896, 10000), Dec(141436, 10000)>>,
    <<Dec(29954, 10000), Dec(31389, 10000), Dec(45465, 10000), Dec(57742, 10000),
      Dec(81191, 10000), Dec(106667, 10000), Dec(134114, 10000), Dec(173329, 10000)>>,
    <<Dec(26803, 10000), Dec(38049, 10000), Dec(50225, 10000), Dec(69162, 10000),
      Dec(87335, 10000), Dec(123291, 10000), Dec(152821, 10000), Dec(190058, 10000)>>,
    <<Dec(28835, 10000), Dec(42002, 10000), Dec(59324, 10000), Dec(82706, 10000),
      Dec(105608, 10000), Dec(144379, 10000), Dec(183024, 10000), Dec(249390, 10000)>>,
    <<Dec(31579, 10000), Dec(47942, 10000), Dec(70763, 10000), Dec(91606, 10000),
      Dec(123945, 10000), Dec(150401, 10000), Dec(217342, 10000), Dec(282547, 10000)>>,
    <<Dec(36857, 10000), Dec(53309, 10000), Dec(83966, 10000), Dec(100249, 10000),
      Dec(150498, 10000), Dec(171050, 10000), Dec(242628, 10000), Dec(297700, 10000)>>,
    <<Dec(39803, 10000), Dec(52442, 10000), Dec(90181, 10000), Dec(105653, 10000),
      Dec(155611, 10000), Dec(175730, 10000), Dec(270142, 10000), Dec(299077, 10000)>>,
    <<Dec(46019, 10000), Dec(48228, 10000), Dec(100921, 10000), Dec(114444, 10000),
      Dec(181619, 10000), Dec(199088, 10000), Dec(308170, 10000), Dec(312351, 10000)>>,
    <<Dec(48405, 10000), Dec(48583, 10000), Dec(100547, 10000), Dec(106654, 10000),
      Dec(192423, 10000), Dec(194731, 10000), Dec(307942, 10000), Dec(311807, 10000)>>,
    <<Dec(46858, 10000), Dec(53332, 10000), Dec(107726, 10000), Dec(113437, 10000),
      Dec(191356, 10000), Dec(190598, 10000), Dec(356945, 10000), Dec(303288, 10000)>>
  >>

\* fm_ref, median values (lines 265-281): row r+1 holds the literals of row r, males and
\* females alternating, for rows 4..16 per BMI category 1..4.
fm_ref_median ==
  <<
    <<Dec(2456, 1000), Dec(2433, 1000)>>,
    <<Dec(2576, 1000), Dec(2606, 1000)>>,
    <<Dec(27, 10), Dec(28, 10)>>,
    <<Dec(366, 100), Dec(447, 100)>>,
    <<Dec(20359, 10000), Dec(25660, 10000), Dec(34642, 10000), Dec(37042, 10000),
      Dec(46220, 10000), Dec(56735, 10000), Dec(71058, 10000), Dec(87339, 10000)>>,
    <<Dec(23771, 10000), Dec(29560, 10000), Dec(36030, 10000), Dec(41865, 10000),
      Dec(55651, 10000), Dec(64374, 10000), Dec(80501, 10000), Dec(93100, 10000)>>,
    <<Dec(21231, 10000), Dec(30917, 10000), Dec(36729, 10000), Dec(48531, 10000),
      Dec(58971, 10000), Dec(70172, 10000), Dec(89372, 10000), Dec(115469, 10000)>>,
    <<Dec(24068, 10000), Dec(29027, 10000), Dec(40597, 10000), Dec(48707, 10000),
      Dec(65720, 10000), Dec(87112, 10000), Dec(108084, 10000), Dec(127559, 10000)>>,
    <<Dec(29954, 10000), Dec(31757, 10000), Dec(45932, 10000), Dec(54455, 10000),
      Dec(80701, 10000), Dec(106143, 10000), Dec(123133, 10000), Dec(157121, 10000)>>,
    <<Dec(27443, 10000), Dec(38911, 10000), Dec(47619, 10000), Dec(69604, 10000),
      Dec(86445, 10000), Dec(117518, 10000), Dec(144743, 10000), Dec(174123, 10000)>>,
    <<Dec(28190, 10000), Dec(41099, 10000), Dec(55671, 10000), Dec(83722, 10000),
      Dec(102431, 10000), Dec(147437, 10000), Dec(173155, 10000), Dec(229359, 10000)>>,
    <<Dec(30059, 10000), Dec(53651, 10000), Dec(67689, 10000), Dec(92549, 10000),
      Dec(120232, 10000), Dec(146163, 10000), Dec(210382, 10000), Dec(266716, 10000)>>,
    <<Dec(37104, 10000), Dec(58580, 10000), Dec(84317, 10000), Dec(98827, 10000),
      Dec(152507, 10000), Dec(162256, 10000), Dec(229540, 10000), Dec(276643, 10000)>>,
    <<Dec(44546, 10000), Dec(52493, 10000), Dec(87820, 10000), Dec(103785, 10000),
      Dec(156754, 10000), Dec(173977, 10000), Dec(255113, 10000), Dec(280559, 10000)>>,
    <<Dec(46585, 10000), Dec(48742, 10000), Dec(95728, 10000), Dec(114776, 10000),
      Dec(183549, 10000), Dec(197533, 10000), Dec(299916, 10000), Dec(306943, 10000)>>,
    <<Dec(48189, 10000), Dec(47975, 10000), Dec(103426, 10000), Dec(103454, 10000),
      Dec(189543, 10000), Dec(193869, 10000), Dec(272116, 10000), Dec(299799, 10000)>>,
    <<Dec(45259, 10000), Dec(57815, 10000), Dec(107497, 10000), Dec(109042, 10000),
      Dec(189053, 10000), Dec(191592, 10000), Dec(319253, 10000), Dec(283702, 10000)>>
  >>

--------------------------------------------------------------------------
(* The object: class Child.  Vectors are sequences indexed 1..nind; the   *)
(* source's individual i is index i+1.                                    *)

\* A vector given elementwise, stored: the sequence of its elements.
Vector(f) == SubSeq(f, 1, Len(f))

\* male*(1 - sex) + female*sex, the blend getParameters and the reference
\* tables use for every sex-dependent constant.
Mix(male, female, s) ==
    fAdd(fMul(male, fSub(fInt(1), s)), fMul(female, s))

\* Child::getParameters: the constants and the sex-dependent vectors.
getParameters(age, sex) ==
    LET V(male, female) ==
            Vector([k \in 1..Len(sex) |-> Mix(male, female, sex[k])])
    IN  [ rhoFM     |-> fMul(Dec(94, 10), Dec(10000, 10)),
          deltamin  |-> Dec(100, 10),
          P         |-> Dec(120, 10),
          h         |-> Dec(100, 10),
          nind      |-> Len(age),
          ffm_beta0 |-> V(Dec(29, 10), Dec(38, 10)),
          ffm_beta1 |-> V(Dec(29, 10), Dec(23, 10)),
          fm_beta0  |-> V(Dec(12, 10), Dec(56, 100)),
          fm_beta1  |-> V(Dec(41, 100), Dec(74, 100)),
          K         |-> V(fInt(800), fInt(700)),
          deltamax  |-> V(fInt(19), fInt(17)),
          A         |-> V(Dec(32, 10), Dec(23, 10)),
          B         |-> V(Dec(96, 10), Dec(84, 10)),
          D         |-> V(Dec(101, 10), Dec(11, 10)),
          tA        |-> V(Dec(47, 10), Dec(45, 10)),
          tB        |-> V(Dec(125, 10), Dec(117, 10)),
          tD        |-> V(Dec(150, 10), Dec(162, 10)),
          tauA      |-> V(Dec(25, 10), Dec(10, 10)),
          tauB      |-> V(Dec(10, 10), Dec(9, 10)),
          tauD      |-> V(Dec(15, 10), Dec(7, 10)),
          A_EB      |-> V(Dec(72, 10), Dec(165, 10)),
          B_EB      |-> V(fInt(30), Dec(470, 10)),
          D_EB      |-> V(fInt(21), Dec(410, 10)),
          tA_EB     |-> V(Dec(56, 10), Dec(48, 10)),
          tB_EB     |-> V(Dec(98, 10), Dec(91, 10)),
          tD_EB     |-> V(Dec(150, 10), Dec(135, 10)),
          tauA_EB   |-> V(fInt(15), Dec(70, 10)),
          tauB_EB   |-> V(Dec(15, 10), Dec(10, 10)),
          tauD_EB   |-> V(Dec(20, 10), Dec(15, 10)),
          A1        |-> V(Dec(32, 10), Dec(23, 10)),
          B1        |-> V(Dec(96, 10), Dec(84, 10)),
          D1        |-> V(Dec(100, 10), Dec(11, 10)),
          tA1       |-> V(Dec(47, 10), Dec(45, 10)),
          tB1       |-> V(Dec(125, 10), Dec(117, 10)),
          tD1       |-> V(Dec(150, 10), Dec(160, 10)),
          tauA1     |-> V(Dec(10, 10), Dec(10, 10)),
          tauB1     |-> V(Dec(94, 100), Dec(94, 100)),
          tauD1     |-> V(Dec(69, 100), Dec(69, 100)) ]

\* Child::build
build(age, sex) == getParameters(age, sex)

\* Child::general_ode, for one individual.
general_ode(t, iA, iB, iD, itA, itB, itD, itauA, itauB, itauD) ==
    fAdd(fAdd(fMul(iA, fExp(fDiv(fNeg(fSub(t, itA)), itauA))),
              fMul(iB, fExp(fMul(fNeg(Dec(5, 10)),
                                 fPow(fDiv(fSub(t, itB), itauB), fInt(2)))))),
         fMul(iD, fExp(fMul(fNeg(Dec(5, 10)),
                            fPow(fDiv(fSub(t, itD), itauD), fInt(2))))))

\* The functions below are the source's vector functions taken at one
\* individual k: each element of their result depends on the elements k
\* of their arguments only, except Intake, which reads t(0) and age(0).

\* Child::Growth_dynamic
Growth_dynamic(o, k, tk) ==
    general_ode(tk, o.A[k], o.B[k], o.D[k], o.tA[k], o.tB[k], o.tD[k],
                o.tauA[k], o.tauB[k], o.tauD[k])

\* Child::Growth_impact
Growth_impact(o, k, tk) ==
    general_ode(tk, o.A1[k], o.B1[k], o.D1[k], o.tA1[k], o.tB1[k],
                o.tD1[k], o.tauA1[k], o.tauB1[k], o.tauD1[k])

\* Child::EB_impact
EB_impact(o, k, tk) ==
    general_ode(tk, o.A_EB[k], o.B_EB[k], o.D_EB[k], o.tA_EB[k],
                o.tB_EB[k], o.tD_EB[k], o.tauA_EB[k], o.tauB_EB[k],
                o.tauD_EB[k])

\* Child::cRhoFFM
cRhoFFM(input_FFM) == fAdd(fMul(Dec(43, 10), input_FFM), Dec(8370, 10))

\* Child::cP; cP_ratio is its last line, given the local C.
cP_ratio(C, FMk) == fDiv(C, fAdd(C, FMk))

cP(o, FFMk, FMk) ==
    cP_ratio(fDiv(fMul(Dec(104, 10), cRhoFFM(FFMk)), o.rhoFM), FMk)

\* Child::Delta
Delta(o, k, tk) ==
    fAdd(o.deltamin,
         fMul(fSub(o.deltamax[k], o.deltamin),
              fDiv(fInt(1), fAdd(fInt(1), fPow(fDiv(tk, o.P), o.h)))))

\* The 17 x nind matrix ffm_ref / fm_ref as FFMReference / FMReference fill
\* it: zero-filled by its constructor, then set from the mean literals when
\* referenceValues == 0 and from the median ones when referenceValues == 1.
\* Rows are 0..16; a row outside them is outside the matrix, which the
\* unchecked operator() would read past: it reads as 0 here, and the
\* lookups below are checked never to ask for one.
ref_row(row, bmi, s) ==
    IF Len(row) = 0 THEN fInt(0)
    ELSE IF Len(row) = 2 THEN Mix(row[1], row[2], s)
    ELSE fAdd(fAdd(fAdd(fMul(IF bmi = fInt(1) THEN fInt(1) ELSE fInt(0),
                             Mix(row[1], row[2], s)),
                        fMul(IF bmi = fInt(2) THEN fInt(1) ELSE fInt(0),
                             Mix(row[3], row[4], s))),
                   fMul(IF bmi = fInt(3) THEN fInt(1) ELSE fInt(0),
                        Mix(row[5], row[6], s))),
              fMul(IF bmi = fInt(4) THEN fInt(1) ELSE fInt(0),
                   Mix(row[7], row[8], s)))

ref_pick(mean, median, o, r) ==
    IF o.referenceValues = fInt(0) THEN mean[r + 1]
    ELSE IF o.referenceValues = fInt(1) THEN median[r + 1]
    ELSE <<>>

ref_cell(mean, median, o, r, k) ==
    IF r < 0 \/ r > 16 THEN fInt(0)
    ELSE ref_row(ref_pick(mean, median, o, r), o.bmiCat[k], o.sex[k])

\* jmin and jmax of the lookup loop for an age below 18 (lines 220-223).
\* jmin without the clamp at age 2.
ref_jmin_unclamped(tk) == fFloor(tk) - 2

ref_jmin(tk) ==
    LET j0 == fFloor(tk)
        j1 == IF j0 > 2 THEN j0 ELSE 2
    IN  j1 - 2

\* jmax equal to jmin: a step function instead of an interpolation.
ref_jmax_flat(tk) == ref_jmin(tk)

ref_jmax(tk) ==
    LET jmin == ref_jmin(tk)
    IN  IF jmin + 1 < 17 THEN jmin + 1 ELSE 17

\* The loop body without its branch for adults.
ref_rows_interpolating(tk) == <<ref_jmin(tk), ref_jmax(tk)>>

\* The rows of the matrix the loop body reads for age tk (lines 217-225).
ref_rows(tk) ==
    IF fGe(tk, fInt(18)) THEN <<16>> ELSE <<ref_jmin(tk), ref_jmax(tk)>>

\* The loop body shared by FFMReference and FMReference (lines 217-226):
\* ref_interp is line 225, given the two cells and diff.
ref_interp(lo, hi, diff) == fAdd(lo, fMul(diff, fSub(hi, lo)))

ref_read(mean, median, o, k, tk, rows) ==
    IF Len(rows) = 1
    THEN ref_cell(mean, median, o, rows[1], k)
    ELSE ref_interp(ref_cell(mean, median, o, rows[1], k),
                    ref_cell(mean, median, o, rows[2], k),
                    fSub(tk, fInt(fFloor(tk))))

ref_t(mean, median, o, k, tk) ==
    ref_read(mean, median, o, k, tk, ref_rows(tk))

\* Child::FFMReference
FFMReference(o, k, tk) == ref_t(ffm_ref_mean, ffm_ref_median, o, k, tk)

\* Child::FMReference
FMReference(o, k, tk) == ref_t(fm_ref_mean, fm_ref_median, o, k, tk)

\* Child::IntakeReference.  IntakeReference_sum is its last statement,
\* given the locals; IntakeReference_locals works out p and rhoFFM from
\* the reference masses.
IntakeReference_sum(o, k, EB, FFMref, FMref, delta, growth, p, rhoFFM) ==
    fAdd(fAdd(fAdd(fAdd(fAdd(EB, o.K[k]),
                        fMul(fAdd(Dec(224, 10), delta), FFMref)),
                   fMul(fAdd(Dec(45, 10), delta), FMref)),
              fMul(fDiv(Dec(2300, 10), rhoFFM),
                   fAdd(fMul(p, EB), growth))),
         fMul(fDiv(Dec(1800, 10), o.rhoFM),
              fSub(fMul(fSub(fInt(1), p), EB), growth)))

IntakeReference_locals(o, k, EB, FFMref, FMref, delta, growth) ==
    IntakeReference_sum(o, k, EB, FFMref, FMref, delta, growth,
                        cP(o, FFMref, FMref), cRhoFFM(FFMref))

IntakeReference(o, k, tk) ==
    IntakeReference_locals(o, k, EB_impact(o, k, tk), FFMReference(o, k, tk),
                           FMReference(o, k, tk), Delta(o, k, tk),
                           Growth_dynamic(o, k, tk))

\* The row of EIntake that Intake reads for the age vector t: it is worked
\* out from individual 0's age and start age alone (line 459).
Intake_timeval(o, t) ==
    fFloor(fDiv(fMul(Dec(3650, 10), fSub(t[1], o.age[1])), o.dt))

\* Whether Intake(t) returns: EIntake(timeval, _) throws index_out_of_bounds
\* for a row outside the matrix.
Intake_ok(o, t) ==
    \/ o.generalized_logistic
    \/ Intake_timeval(o, t) \in 0..(Len(o.EIntake) - 1)

\* Intake evaluating the logistic curve whatever the constructor was.
Intake_curve(o, t, k) ==
    fAdd(o.A_logistic,
         fDiv(fSub(o.K_logistic, o.A_logistic),
              fPow(fAdd(o.C_logistic,
                        fMul(o.Q_logistic,
                             fExp(fMul(fNeg(o.B_logistic), t[k])))),
                   fDiv(fInt(1), o.nu_logistic))))

\* Child::Intake, element k of the vector it returns (0 stands in where
\* it throws instead: rk4 is left then, see rk4_step).
Intake(o, t, k) ==
    IF o.generalized_logistic
    THEN fAdd(o.A_logistic,
              fDiv(fSub(o.K_logistic, o.A_logistic),
                   fPow(fAdd(o.C_logistic,
                             fMul(o.Q_logistic,
                                  fExp(fMul(fNeg(o.B_logistic), t[k])))),
                        fDiv(fInt(1), o.nu_logistic))))
    ELSE IF Intake_ok(o, t)
         THEN o.EIntake[Intake_timeval(o, t) + 1][k]
         ELSE fInt(0)

\* Child::Expenditure.  Expenditure_ratio is its last two statements
\* (Expend and the quotient returned), given the locals.
Expenditure_ratio(o, k, FFMk, FMk, delta, Intakeval, DeltaI, p, rhoFFM, growth) ==
    fDiv(fAdd(fAdd(fAdd(fAdd(fAdd(o.K[k],
              fMul(fAdd(Dec(224, 10), delta), FFMk)),
              fMul(fAdd(Dec(45, 10), delta), FMk)),
              fMul(Dec(24, 100), DeltaI)),
              fMul(fAdd(fMul(fDiv(Dec(2300, 10), rhoFFM), p),
                        fMul(fDiv(Dec(1800, 10), o.rhoFM),
                             fSub(fInt(1), p))),
                   Intakeval)),
              fMul(growth, fSub(fDiv(Dec(2300, 10), rhoFFM),
                                fDiv(Dec(1800, 10), o.rhoFM)))),
         fAdd(fAdd(fInt(1), fMul(fDiv(Dec(2300, 10), rhoFFM), p)),
              fMul(fDiv(Dec(1800, 10), o.rhoFM), fSub(fInt(1), p))))

Expenditure_locals(o, k, FFMk, FMk, delta, Iref, Intakeval, p, rhoFFM, growth) ==
    Expenditure_ratio(o, k, FFMk, FMk, delta, Intakeval,
                      fSub(Intakeval, Iref), p, rhoFFM, growth)

Expenditure(o, t, k, FFMk, FMk) ==
    Expenditure_locals(o, k, FFMk, FMk, Delta(o, k, t[k]),
                       IntakeReference(o, k, t[k]), Intake(o, t, k),
                       cP(o, FFMk, FMk), cRhoFFM(FFMk),
                       Growth_dynamic(o, k, t[k]))

\* Child::dMass: per individual <<dFFM, dFM>> (the source's 2 x nind matrix
\* Mass, column k).  dMass_column is the two assignments to Mass, given
\* the locals.
dMass_column(o, t, k, rhoFFM, p, growth, expend) ==
    << fDiv(fAdd(fMul(fMul(fInt(1), p), fSub(Intake(o, t, k), expend)),
                 growth),
            rhoFFM),
       fDiv(fSub(fMul(fSub(fInt(1), p), fSub(Intake(o, t, k), expend)),
                 growth),
            o.rhoFM) >>

dMass(o, t, FFM, FM) ==
    Vector([k \in 1..o.nind |->
        dMass_column(o, t, k, cRhoFFM(FFM[k]), cP(o, FFM[k], FM[k]),
                     Growth_dynamic(o, k, t[k]),
                     Expenditure(o, t, k, FFM[k], FM[k]))])

--------------------------------------------------------------------------
(* Inputs *)

\* Longest simulation asked for, in days.
MaxDays == 3

\* Rows of the intake matrices the callers pass.
TableRows == 3

\* Oldest whole age the reference lookups are asked for.
MaxAge == 20

Ages == {Dec(60, 10), Dec(170, 10)}

Sexes == {fInt(0), fInt(1)}

BmiCats == {fInt(1), fInt(2), fInt(3), fInt(4)}

FFM0s == {Dec(250, 10)}

FM0s == {fInt(0), Dec(60, 10)}

Dts == {Dec(10, 10), Dec(20, 10)}

RefVals == {fInt(0), fInt(1)}

Individuals ==
    [age : Ages, sex : Sexes, bmiCat : {fInt(2)}, FFM : FFM0s, FM : FM0s]

\* The second member of a cohort of two.
Companions == {a \in Individuals : a.sex = fInt(0) /\ a.FM = Dec(60, 10)}

Singles == {<<a>> : a \in Individuals}

\* Cohorts: one individual, or two.
Cohorts == Singles \cup {<<a, b>> : a \in Individuals, b \in Companions}

\* Intake per day (kcal) of one individual over the rows of a table: row r
\* holds base + r*300.
IntakeColumn(base) ==
    Vector([r \in 1..TableRows |-> fAdd(base, fMul(fInt(r - 1), fInt(300)))])

IntakeBases == {fInt(1500)}

\* The matrix with the given columns.
IntakeTable(cols) ==
    Vector([r \in 1..TableRows |-> Vector([k \in 1..Len(cols) |-> cols[k][r]])])

\* Parameters K, Q, A, B, nu, C of the generalized logistic intake.
LogisticParams ==
    {[K |-> fInt(2000), Q |-> fInt(1), A |-> fInt(1500), B |-> Dec(3, 10),
      nu |-> fInt(1), C |-> fInt(1)]}

\* What the members K_logistic .. C_logistic, which the matrix constructor
\* leaves uninitialized, may hold: two arbitrary values.
Uninitialized == {fInt(1), fInt(4)}

DaysSet == {fInt(d) : d \in 0..MaxDays}

\* Whole ages around which the reference curves are looked up, and the
\* distances from them (1/8 and 1/32 of a year).
RefYears == (0 - 1)..MaxAge

RefSteps == {Dec(1, 8), Dec(1, 32)}

Column(c, f) == Vector([k \in 1..Len(c) |-> c[k][f]])

--------------------------------------------------------------------------
(* State *)

Insts == {1, 2}

VARIABLES
    obj,    \* obj[j]: the Child object j, "none" before its construction
    pc,     \* pc[j]: "none", "ready", "loop" (inside rk4), "returned", "error"
    rk,     \* rk[j]: the locals of the running rk4 call, "none" outside it
    stage,  \* stage[j]: the arguments of the four dMass calls of the last step
    ret,    \* ret[j]: the List the last rk4 call returned, "none" if none
    args,   \* args[j]: the arguments object j was constructed with
    asked,  \* asked[j]: the argument days of the last rk4 call
    look    \* a reference lookup: its object, its ages and what it returned

vars == <<obj, pc, rk, stage, ret, args, asked, look>>

\* Child::Child (energy matrix), lines 76-89
Child_matrix(cohort, EIntake, dt, checkValues, referenceValues, garbage) ==
    [ age |-> Column(cohort, "age"), sex |-> Column(cohort, "sex"),
      bmiCat |-> Column(cohort, "bmiCat"), FM |-> Column(cohort, "FM"),
      FFM |-> Column(cohort, "FFM"), dt |-> dt, EIntake |-> EIntake,
      check |-> checkValues, generalized_logistic |-> FALSE,
      referenceValues |-> referenceValues,
      K_logistic |-> garbage, A_logistic |-> garbage, Q_logistic |-> garbage,
      B_logistic |-> garbage, nu_logistic |-> garbage, C_logistic |-> garbage ]
    @@ build(Column(cohort, "age"), Column(cohort, "sex"))

\* Child::Child (Richards curve), lines 92-112
Child_logistic(cohort, lp, dt, checkValues, referenceValues) ==
    [ age |-> Column(cohort, "age"), sex |-> Column(cohort, "sex"),
      bmiCat |-> Column(cohort, "bmiCat"), FM |-> Column(cohort, "FM"),
      FFM |-> Column(cohort, "FFM"), dt |-> dt, EIntake |-> <<>>,
      check |-> checkValues, generalized_logistic |-> TRUE,
      referenceValues |-> referenceValues,
      K_logistic |-> lp.K, A_logistic |-> lp.A, Q_logistic |-> lp.Q,
      B_logistic |-> lp.B, nu_logistic |-> lp.nu, C_logistic |-> lp.C ]
    @@ build(Column(cohort, "age"), Column(cohort, "sex"))

\* The object a constructor call with the arguments a leaves.  a.garbage
\* is what the members the matrix constructor does not set happen to hold.
Child(a) ==
    IF a.mode = "matrix"
    THEN Child_matrix(a.cohort, IntakeTable(a.cols), a.dt, a.checkValues,
                      a.referenceValues, a.garbage)
    ELSE Child_logistic(a.cohort, a.lp, a.dt, a.checkValues,
                        a.referenceValues)

MatrixArgs(cs) ==
    { [mode |-> "matrix", cohort |-> c,
       cols |-> Vector([k \in 1..Len(c) |-> IntakeColumn(b)]),
       dt |-> dt,
       checkValues |-> TRUE, referenceValues |-> rv, garbage |-> g] :
      c \in cs, b \in IntakeBases, dt \in Dts, rv \in RefVals,
      g \in Uninitialized }

LogisticArgs(cs) ==
    { [mode |-> "logistic", cohort |-> c, lp |-> lp, dt |-> dt,
       checkValues |-> TRUE, referenceValues |-> rv] :
      c \in cs, lp \in LogisticParams, dt \in Dts, rv \in RefVals }

NoLook == [state |-> "none"]

Init ==
    /\ obj = [j \in Insts |-> "none"]
    /\ pc = [j \in Insts |-> "none"]
    /\ rk = [j \in Insts |-> "none"]
    /\ stage = [j \in Insts |-> <<>>]
    /\ ret = [j \in Insts |-> "none"]
    /\ args = [j \in Insts |-> "none"]
    /\ asked = [j \in Insts |-> "none"]
    /\ look = NoLook

\* A constructor runs for instance j with the arguments a.
Construct(j, a) ==
    /\ pc[j] = "none"
    /\ obj' = [obj EXCEPT ![j] = Child(a)]
    /\ args' = [args EXCEPT ![j] = a]
    /\ pc' = [pc EXCEPT ![j] = "ready"]
    /\ UNCHANGED <<rk, stage, ret, asked, look>>

Zeros(n) == Vector([k \in 1..n |-> fInt(0)])

\* rk4(days) up to the loop: lines 333-356.  The matrices are allocated
\* zero-filled with nsims + 1 columns; the source's column i is index i+1.
rk4_enter(o, days) ==
    LET nsims == fFloor(fDiv(days, o.dt))
        zero  == Vector([c \in 1..(nsims + 1) |-> Zeros(o.nind)])
    IN  [ days |-> days, nsims |-> nsims, i |-> 1,
          ModelFFM |-> [zero EXCEPT ![1] = o.FFM],
          ModelFM  |-> [zero EXCEPT ![1] = o.FM],
          ModelBW  |-> [zero EXCEPT ![1] =
                          Vector([k \in 1..o.nind |-> fAdd(o.FFM[k], o.FM[k])])],
          AGE      |-> [zero EXCEPT ![1] = o.age],
          TIME     |-> [Zeros(nsims + 1) EXCEPT ![1] = fInt(0)],
          correctVals |-> TRUE,
          k1 |-> <<>>, k2 |-> <<>>, k3 |-> <<>>, k4 |-> <<>> ]

Simulate(j, days) ==
    /\ pc[j] \in {"ready", "returned"}
    /\ rk' = [rk EXCEPT ![j] = rk4_enter(obj[j], days)]
    /\ pc' = [pc EXCEPT ![j] = "loop"]
    /\ stage' = [stage EXCEPT ![j] = <<>>]
    /\ ret' = [ret EXCEPT ![j] = "none"]
    /\ asked' = [asked EXCEPT ![j] = days]
    /\ UNCHANGED <<obj, args, look>>

\* The arguments of the four dMass calls of an iteration (lines 361-364),
\* given the rates k1, k2, k3 of the calls before each.  r.i is the index
\* of the previous column.
rk4_arg1(o, r) ==
    [t |-> r.AGE[r.i], FFM |-> r.ModelFFM[r.i], FM |-> r.ModelFM[r.i]]

rk4_arg2(o, r, k1) ==
    [t   |-> Vector([k \in 1..o.nind |->
                fAdd(r.AGE[r.i][k],
                     fDiv(fMul(Dec(5, 10), o.dt), Dec(3650, 10)))]),
     FFM |-> Vector([k \in 1..o.nind |->
                fAdd(r.ModelFFM[r.i][k], fMul(Dec(5, 10), k1[k][1]))]),
     FM  |-> Vector([k \in 1..o.nind |->
                fAdd(r.ModelFM[r.i][k], fMul(Dec(5, 10), k1[k][2]))])]

rk4_arg3(o, r, k2) ==
    [t   |-> Vector([k \in 1..o.nind |->
                fAdd(r.AGE[r.i][k],
                     fDiv(fMul(Dec(5, 10), o.dt), Dec(3650, 10)))]),
     FFM |-> Vector([k \in 1..o.nind |->
                fAdd(r.ModelFFM[r.i][k], fMul(Dec(5, 10), k2[k][1]))]),
     FM  |-> Vector([k \in 1..o.nind |->
                fAdd(r.ModelFM[r.i][k], fMul(Dec(5, 10), k2[k][2]))])]

rk4_arg4(o, r, k3) ==
    [t   |-> Vector([k \in 1..o.nind |->
                fAdd(r.AGE[r.i][k], fDiv(o.dt, Dec(3650, 10)))]),
     FFM |-> Vector([k \in 1..o.nind |-> fAdd(r.ModelFFM[r.i][k], k3[k][1])]),
     FM  |-> Vector([k \in 1..o.nind |-> fAdd(r.ModelFM[r.i][k], k3[k][2])])]

\* The update of one channel (lines 369-370): ch = 1 is FFM, ch = 2 is FM.
rk4_update(o, prev, k1, k2, k3, k4, ch) ==
    Vector([k \in 1..o.nind |->
        fAdd(prev[k],
             fDiv(fMul(o.dt,
                       fAdd(fAdd(fAdd(k1[k][ch], fMul(Dec(20, 10), k2[k][ch])),
                                 fMul(Dec(20, 10), k3[k][ch])),
                            k4[k][ch])),
                  Dec(60, 10)))])

\* The new column's weight without its fat mass.
rk4_weight_lean(o, ffm, fm) == ffm

\* Total weight of the new column (line 373).
rk4_weight(o, ffm, fm) == Vector([k \in 1..o.nind |-> fAdd(ffm[k], fm[k])])

\* The time advanced by one day whatever dt is.
rk4_time_daily(o, prevTime) == fAdd(prevTime, fInt(1))

\* TIME(i) (line 376) and AGE(_, i) (line 379).
rk4_time(o, prevTime) == fAdd(prevTime, o.dt)

rk4_age(o, prevAge) ==
    Vector([k \in 1..o.nind |-> fAdd(prevAge[k], fDiv(o.dt, Dec(3650, 10)))])

\* One iteration of the loop of rk4: lines 357-380.  rk4_commit is lines
\* 369-379, given the arguments a1..a4 and the results k1..k4 of the four
\* dMass calls; rk4_stage1..rk4_stage4 are the calls, in the source's order.
\* A call of Intake that throws index_out_of_bounds leaves rk4.
rk4_commit(j, a1, a2, a3, a4, k1, k2, k3, k4) ==
    \E ffm \in {rk4_update(obj[j], rk[j].ModelFFM[rk[j].i], k1, k2, k3, k4, 1)} :
    \E fm \in {rk4_update(obj[j], rk[j].ModelFM[rk[j].i], k1, k2, k3, k4, 2)} :
        IF /\ Intake_ok(obj[j], a1.t) /\ Intake_ok(obj[j], a2.t)
           /\ Intake_ok(obj[j], a3.t) /\ Intake_ok(obj[j], a4.t)
        THEN /\ rk' = [rk EXCEPT ![j] =
                  [rk[j] EXCEPT
                      !.k1 = k1, !.k2 = k2, !.k3 = k3, !.k4 = k4,
                      !.ModelFFM[rk[j].i + 1] = ffm,
                      !.ModelFM[rk[j].i + 1] = fm,
                      !.ModelBW[rk[j].i + 1] = rk4_weight(obj[j], ffm, fm),
                      !.TIME[rk[j].i + 1] = rk4_time(obj[j], rk[j].TIME[rk[j].i]),
                      !.AGE[rk[j].i + 1] = rk4_age(obj[j], rk[j].AGE[rk[j].i]),
                      !.i = rk[j].i + 1]]
             /\ stage' = [stage EXCEPT ![j] = <<a1, a2, a3, a4>>]
             /\ UNCHANGED <<obj, pc, ret, args, asked, look>>
        ELSE /\ pc' = [pc EXCEPT ![j] = "error"]
             /\ rk' = [rk EXCEPT ![j] = "none"]
             /\ UNCHANGED <<obj, stage, ret, args, asked, look>>

rk4_stage4(j, a1, a2, a3, k1, k2, k3) ==
    \E a4 \in {rk4_arg4(obj[j], rk[j], k3)} :
    \E k4 \in {dMass(obj[j], a4.t, a4.FFM, a4.FM)} :
        rk4_commit(j, a1, a2, a3, a4, k1, k2, k3, k4)

rk4_stage3(j, a1, a2, k1, k2) ==
    \E a3 \in {rk4_arg3(obj[j], rk[j], k2)} :
    \E k3 \in {dMass(obj[j], a3.t, a3.FFM, a3.FM)} :
        rk4_stage4(j, a1, a2, a3, k1, k2, k3)

rk4_stage2(j, a1, k1) ==
    \E a2 \in {rk4_arg2(obj[j], rk[j], k1)} :
    \E k2 \in {dMass(obj[j], a2.t, a2.FFM, a2.FM)} :
        rk4_stage3(j, a1, a2, k1, k2)

rk4_stage1(j, a1) ==
    \E k1 \in {dMass(obj[j], a1.t, a1.FFM, a1.FM)} :
        rk4_stage2(j, a1, k1)

rk4_step(j) ==
    /\ pc[j] = "loop"
    /\ rk[j].i <= rk[j].nsims
    /\ \E a1 \in {rk4_arg1(obj[j], rk[j])} : rk4_stage1(j, a1)

\* A List whose flag reports whether every mass recorded is non-negative.
rk4_list_validating(r) ==
    [ Time |-> r.TIME, Age |-> r.AGE, Fat_Free_Mass |-> r.ModelFFM,
      Fat_Mass |-> r.ModelFM, Body_Weight |-> r.ModelBW,
      Correct_Values |->
          \A i \in 1..Len(r.ModelFM) : \A k \in 1..Len(r.ModelFM[i]) :
              fGe(r.ModelFFM[i][k], fInt(0)) /\ fGe(r.ModelFM[i][k], fInt(0)),
      Model_Type |-> "Children" ]

\* The List rk4 returns: lines 382-388.
rk4_list(r) ==
    [ Time |-> r.TIME, Age |-> r.AGE, Fat_Free_Mass |-> r.ModelFFM,
      Fat_Mass |-> r.ModelFM, Body_Weight |-> r.ModelBW,
      Correct_Values |-> r.correctVals, Model_Type |-> "Children" ]

\* rk4 returning after it stored the last column as the object's masses.
rk4_return_storing(j) ==
    /\ pc[j] = "loop"
    /\ rk[j].i > rk[j].nsims
    /\ ret' = [ret EXCEPT ![j] = rk4_list(rk[j])]
    /\ pc' = [pc EXCEPT ![j] = "returned"]
    /\ rk' = [rk EXCEPT ![j] = "none"]
    /\ obj' = [obj EXCEPT ![j] =
                  [obj[j] EXCEPT !.FFM = rk[j].ModelFFM[rk[j].nsims + 1],
                                 !.FM = rk[j].ModelFM[rk[j].nsims + 1]]]
    /\ UNCHANGED <<stage, args, asked, look>>

rk4_return(j) ==
    /\ pc[j] = "loop"
    /\ rk[j].i > rk[j].nsims
    /\ ret' = [ret EXCEPT ![j] = rk4_list(rk[j])]
    /\ pc' = [pc EXCEPT ![j] = "returned"]
    /\ rk' = [rk EXCEPT ![j] = "none"]
    /\ UNCHANGED <<obj, stage, args, asked, look>>

--------------------------------------------------------------------------
(* One object: the caller constructs a Child from an intake matrix or from *)
(* the parameters of the logistic curve, and calls rk4, any number of      *)
(* times.                                                                  *)

ConstructMatrix(j, cs) == \E a \in MatrixArgs(cs) : Construct(j, a)

ConstructLogistic(j, cs) == \E a \in LogisticArgs(cs) : Construct(j, a)

Run(j) == \E days \in DaysSet : Simulate(j, days)

Next ==
    \/ ConstructMatrix(1, Cohorts)
    \/ ConstructLogistic(1, Cohorts)
    \/ Run(1)
    \/ rk4_step(1)
    \/ rk4_return(1)

Spec == Init /\ [][Next]_vars

--------------------------------------------------------------------------
(* Two objects built from the same arguments, asked for the same days.     *)

\* The first call of rk4 on object j.
RunOnce(j) == pc[j] = "ready" /\ Run(j)

Done(j) == pc[j] \in {"returned", "error"}

\* A second object is constructed with the arguments of the first; the
\* members the constructor leaves unset hold anything.
ConstructTwin ==
    /\ Done(1)
    /\ \E g \in Uninitialized :
           Construct(2, IF args[1].mode = "matrix"
                        THEN [args[1] EXCEPT !.garbage = g] ELSE args[1])

\* rk4 is called on object 2 with the days object 1 was asked for.
RunSame == pc[2] = "ready" /\ Simulate(2, asked[1])

NextTwin ==
    \/ ConstructMatrix(1, Cohorts)
    \/ ConstructLogistic(1, Cohorts)
    \/ RunOnce(1)
    \/ rk4_step(1)
    \/ rk4_return(1)
    \/ ConstructTwin
    \/ RunSame
    \/ rk4_step(2)
    \/ rk4_return(2)

SpecTwin == Init /\ [][NextTwin]_vars

--------------------------------------------------------------------------
(* One individual alone, and the same individual in a cohort of two.       *)

\* Object 2 is constructed for a cohort of two holding the individual of
\* object 1 at position pos, with the same intake column for it, the same
\* dt and the same reference variant.
ConstructLarger ==
    /\ Done(1)
    /\ \E pos \in {1, 2}, other \in Companions, b \in IntakeBases :
         LET a  == args[1]
             me == a.cohort[1]
             c2 == IF pos = 1 THEN <<me, other>> ELSE <<other, me>>
         IN  Construct(2,
               IF a.mode = "matrix"
               THEN [a EXCEPT !.cohort = c2,
                              !.cols = IF pos = 1
                                       THEN <<a.cols[1], IntakeColumn(b)>>
                                       ELSE <<IntakeColumn(b), a.cols[1]>>]
               ELSE [a EXCEPT !.cohort = c2])

NextCohort ==
    \/ ConstructMatrix(1, Singles)
    \/ ConstructLogistic(1, Singles)
    \/ RunOnce(1)
    \/ rk4_step(1)
    \/ rk4_return(1)
    \/ ConstructLarger
    \/ RunSame
    \/ rk4_step(2)
    \/ rk4_return(2)

SpecCohort == Init /\ [][NextCohort]_vars

--------------------------------------------------------------------------
(* The reference curves alone: FFMReference and FMReference are called     *)
(* for the ages n - e, n and n + e of an individual.                       *)

LookRequests ==
    { [state |-> "asked",
       o |-> Child_logistic(<<[age |-> Dec(60, 10), sex |-> s, bmiCat |-> b,
                               FFM |-> Dec(250, 10), FM |-> Dec(60, 10)]>>,
                            lp, Dec(10, 10), TRUE, rv),
       n |-> n, e |-> e,
       t |-> <<fSub(fInt(n), e), fInt(n), fAdd(fInt(n), e)>>,
       FFM |-> <<>>, FM |-> <<>>] :
      s \in Sexes, b \in BmiCats, rv \in RefVals, lp \in LogisticParams,
      n \in RefYears, e \in RefSteps }

InitRef ==
    /\ obj = [j \in Insts |-> "none"]
    /\ pc = [j \in Insts |-> "none"]
    /\ rk = [j \in Insts |-> "none"]
    /\ stage = [j \in Insts |-> <<>>]
    /\ ret = [j \in Insts |-> "none"]
    /\ args = [j \in Insts |-> "none"]
    /\ asked = [j \in Insts |-> "none"]
    /\ look \in LookRequests

\* FFMReference is called for each of the ages; what it returns is kept
\* with the rows of the matrix it read.
CallFFMReference ==
    /\ look.state = "asked"
    /\ look.FFM = <<>>
    /\ look' = [look EXCEPT !.FFM =
                   Vector([p \in 1..3 |->
                       [rows |-> ref_rows(look.t[p]),
                        val  |-> FFMReference(look.o, 1, look.t[p])]])]
    /\ UNCHANGED <<obj, pc, rk, stage, ret, args, asked>>

CallFMReference ==
    /\ look.state = "asked"
    /\ look.FM = <<>>
    /\ look' = [look EXCEPT !.FM =
                   Vector([p \in 1..3 |->
                       [rows |-> ref_rows(look.t[p]),
                        val  |-> FMReference(look.o, 1, look.t[p])]])]
    /\ UNCHANGED <<obj, pc, rk, stage, ret, args, asked>>

NextRef == CallFFMReference \/ CallFMReference

SpecRef == InitRef /\ [][NextRef]_vars

--------------------------------------------------------------------------
(* Properties *)

fAbs(x) == <<Abs(x[1]), x[2]>>

fLe(x, y) == ~fLt(y, x)

\* floor(days/dt) of the last call on object j.
Steps(j) == fFloor(fDiv(asked[j], obj[j].dt))

\* C1: in the trace Simulate returns, and in every column rk4 has filled
\* so far, Body_Weight is Fat_Free_Mass + Fat_Mass for every individual at
\* every recorded step 0..floor(days/dt).
C1_WeightIsSum ==
    \A j \in Insts :
        /\ pc[j] = "loop" =>
              \A i \in 1..rk[j].i : \A k \in 1..obj[j].nind :
                  rk[j].ModelBW[i][k] =
                      fAdd(rk[j].ModelFFM[i][k], rk[j].ModelFM[i][k])
        /\ pc[j] = "returned" =>
              /\ Len(ret[j].Body_Weight) = Steps(j) + 1
              /\ \A i \in 1..(Steps(j) + 1) : \A k \in 1..obj[j].nind :
                     ret[j].Body_Weight[i][k] =
                         fAdd(ret[j].Fat_Free_Mass[i][k],
                              ret[j].Fat_Mass[i][k])

\* C1 witness: a trace of three steps for a cohort of two has been returned,
\* with a fat mass that is not zero.
C1_Witness ==
    /\ pc[1] = "returned"
    /\ obj[1].nind = 2
    /\ Len(ret[1].Body_Weight) = 4
    /\ ret[1].Fat_Mass[4][1] # fInt(0)

\* C2: Simulate(days) takes exactly floor(days/dt) steps; the trace has
\* floor(days/dt) + 1 points, Time starts at 0 and grows by dt, Age grows
\* by dt/365 and is strictly increasing (with dt = 1, Time is 0, 1, 2, ...).
C2_StepCount ==
    \A j \in Insts :
        /\ pc[j] = "loop" =>
              /\ rk[j].nsims = Steps(j)
              /\ rk[j].i \in 1..(Steps(j) + 1)
        /\ pc[j] = "returned" =>
              /\ Len(ret[j].Time) = Steps(j) + 1
              /\ Len(ret[j].Age) = Steps(j) + 1
              /\ Len(ret[j].Fat_Free_Mass) = Steps(j) + 1
              /\ Len(ret[j].Fat_Mass) = Steps(j) + 1
              /\ ret[j].Time[1] = fInt(0)
              /\ ret[j].Age[1] = obj[j].age
              /\ \A i \in 2..(Steps(j) + 1) :
                    /\ ret[j].Time[i] = fAdd(ret[j].Time[i - 1], obj[j].dt)
                    /\ obj[j].dt = fInt(1) => ret[j].Time[i] = fInt(i - 1)
                    /\ \A k \in 1..obj[j].nind :
                          /\ ret[j].Age[i][k] =
                                 fAdd(ret[j].Age[i - 1][k],
                                      fDiv(obj[j].dt, fInt(365)))
                          /\ fLt(ret[j].Age[i - 1][k], ret[j].Age[i][k])

\* C2 witness: dt = 2 and days = 3 gave one step, two points.
C2_Witness ==
    /\ pc[1] = "returned"
    /\ obj[1].dt = fInt(2)
    /\ asked[1] = fInt(3)
    /\ Len(ret[1].Time) = 2
    /\ ret[1].Time[2] = fInt(2)

\* C3 (as the specification states it): every step taken is the classical
\* RK4 update with step dt: stage 2 and 3 are evaluated at the state plus
\* dt/2 times the previous rate, stage 4 at the state plus dt times it, the
\* age argument at age + dt/730 and age + dt/365.
C3_ClassicalRK4 ==
    \A j \in Insts :
        (pc[j] = "loop" /\ Len(stage[j]) = 4) =>
            \A k \in 1..obj[j].nind :
                LET h    == obj[j].dt
                    prev == rk[j].i - 1
                    F    == rk[j].ModelFFM[prev][k]
                    M    == rk[j].ModelFM[prev][k]
                    T    == rk[j].AGE[prev][k]
                IN  /\ stage[j][1].t[k] = T
                    /\ stage[j][1].FFM[k] = F
                    /\ stage[j][1].FM[k] = M
                    /\ stage[j][2].t[k] = fAdd(T, fDiv(h, fInt(730)))
                    /\ stage[j][2].FFM[k] =
                           fAdd(F, fMul(fDiv(h, fInt(2)), rk[j].k1[k][1]))
                    /\ stage[j][2].FM[k] =
                           fAdd(M, fMul(fDiv(h, fInt(2)), rk[j].k1[k][2]))
                    /\ stage[j][3].t[k] = fAdd(T, fDiv(h, fInt(730)))
                    /\ stage[j][3].FFM[k] =
                           fAdd(F, fMul(fDiv(h, fInt(2)), rk[j].k2[k][1]))
                    /\ stage[j][3].FM[k] =
                           fAdd(M, fMul(fDiv(h, fInt(2)), rk[j].k2[k][2]))
                    /\ stage[j][4].t[k] = fAdd(T, fDiv(h, fInt(365)))
                    /\ stage[j][4].FFM[k] = fAdd(F, fMul(h, rk[j].k3[k][1]))
                    /\ stage[j][4].FM[k] = fAdd(M, fMul(h, rk[j].k3[k][2]))

\* C4 (as the specification states it): no fat-free mass and no fat mass
\* recorded by rk4 is negative.
C4_MassesNonNegative ==
    \A j \in Insts :
        pc[j] = "loop" =>
            \A i \in 1..rk[j].i : \A k \in 1..obj[j].nind :
                /\ fGe(rk[j].ModelFFM[i][k], fInt(0))
                /\ fGe(rk[j].ModelFM[i][k], fInt(0))

\* C9: the flag correctVals stays true through the loop and the trace
\* returned carries Correct_Values = TRUE, whatever the masses are.
C9_AlwaysValid ==
    \A j \in Insts :
        /\ pc[j] = "loop" => rk[j].correctVals = TRUE
        /\ pc[j] = "returned" => ret[j].Correct_Values = TRUE

\* C9 witness: a returned trace holds a negative fat mass and is flagged
\* valid.
C9_Witness ==
    /\ pc[1] = "returned"
    /\ \E i \in 1..Len(ret[1].Fat_Mass) :
           fLt(ret[1].Fat_Mass[i][1], fInt(0))
    /\ ret[1].Correct_Values = TRUE

--------------------------------------------------------------------------
(* Properties of the reference lookups *)

LookDone == look.state = "asked" /\ Len(look.FFM) = 3 /\ Len(look.FM) = 3

\* C5: for an age t >= 18 FFMReference and FMReference read row 16 alone
\* and return it, the same value for every such t.
C5_AdultRow ==
    LookDone =>
        \A p \in 1..3 :
            fGe(look.t[p], fInt(18)) =>
                /\ look.FFM[p].rows = <<16>>
                /\ look.FM[p].rows = <<16>>
                /\ look.FFM[p].val =
                       ref_cell(ffm_ref_mean, ffm_ref_median, look.o, 16, 1)
                /\ look.FM[p].val =
                       ref_cell(fm_ref_mean, fm_ref_median, look.o, 16, 1)
                /\ \A q \in 1..3 :
                       fGe(look.t[q], fInt(18)) =>
                           /\ look.FFM[q].val = look.FFM[p].val
                           /\ look.FM[q].val = look.FM[p].val

\* C5 witness: the lookups were made at 18 exactly and at 18 + 1/8 for an
\* individual whose row 16 depends on the BMI category.
C5_Witness ==
    /\ LookDone
    /\ look.n = 18
    /\ look.e = Dec(1, 8)
    /\ look.o.bmiCat[1] = fInt(3)

\* The per-year differences of the table next to the whole age n: rows
\* n-3, n-2 and n-1, kept within the table.
RefDelta(mean, median) ==
    LET lo == IF look.n - 3 < 0 THEN 0
              ELSE IF look.n - 3 > 14 THEN 14 ELSE look.n - 3
        a  == ref_cell(mean, median, look.o, lo, 1)
        b  == ref_cell(mean, median, look.o, lo + 1, 1)
        c  == ref_cell(mean, median, look.o, lo + 2, 1)
    IN  fAdd(fAbs(fSub(b, a)), fAbs(fSub(c, b)))

\* What the rounding of the interpolation may add to a difference.
RefSlack == Dec(1, 64)

\* The values at n - e and n + e differ by at most e times the per-year
\* differences.
RefClose(mean, median, got) ==
    fLe(fAbs(fSub(got[3].val, got[1].val)),
        fAdd(fMul(look.e, RefDelta(mean, median)), RefSlack))

\* C6 (as the specification states it): the lookup is continuous at every
\* whole age n, the ages 0, 1 and 2 included.
C6_ContinuousEverywhere ==
    LookDone =>
        /\ RefClose(ffm_ref_mean, ffm_ref_median, look.FFM)
        /\ RefClose(fm_ref_mean, fm_ref_median, look.FM)

\* C6 (amended): the lookup is continuous at every whole age n >= 3, the
\* age 18 included.
C6_ContinuousFromThree ==
    (LookDone /\ look.n >= 3) =>
        /\ RefClose(ffm_ref_mean, ffm_ref_median, look.FFM)
        /\ RefClose(fm_ref_mean, fm_ref_median, look.FM)

\* C6 witness: the lookups were made on both sides of age 3, where the
\* first two intervals of the table meet.
C6_Witness ==
    /\ LookDone
    /\ look.n = 3
    /\ look.e = Dec(1, 32)
    /\ look.FFM[1].rows = <<0, 1>>
    /\ look.FFM[3].rows = <<1, 2>>

\* C10: for an age t < 18 the lookups read rows jmin = max(floor(t), 2) - 2
\* and jmax = min(jmin + 1, 16), both rows of the table, and return
\* ref[jmin] + (t - floor(t)) * (ref[jmax] - ref[jmin]); for t < 2 these
\* are rows 0 and 1.
C10_InterpolatedRows ==
    LookDone =>
        \A p \in 1..3 :
            fLt(look.t[p], fInt(18)) =>
                LET fl   == fFloor(look.t[p])
                    jmin == (IF fl > 2 THEN fl ELSE 2) - 2
                    jmax == IF jmin + 1 < 16 THEN jmin + 1 ELSE 16
                    diff == fSub(look.t[p], fInt(fl))
                    at(mean, median, r) ==
                        ref_cell(mean, median, look.o, r, 1)
                    mix(mean, median) ==
                        fAdd(at(mean, median, jmin),
                             fMul(diff, fSub(at(mean, median, jmax),
                                             at(mean, median, jmin))))
                IN  /\ jmin \in 0..16 /\ jmax \in 0..16
                    /\ look.FFM[p].rows = <<jmin, jmax>>
                    /\ look.FM[p].rows = <<jmin, jmax>>
                    /\ look.FFM[p].val = mix(ffm_ref_mean, ffm_ref_median)
                    /\ look.FM[p].val = mix(fm_ref_mean, fm_ref_median)
                    /\ fLt(look.t[p], fInt(2)) => <<jmin, jmax>> = <<0, 1>>

\* C10 witness: the lookups were made at a negative age, and read rows 0
\* and 1.
C10_Witness ==
    /\ LookDone
    /\ look.n = 0
    /\ fLt(look.t[1], fInt(0))
    /\ look.FFM[1].rows = <<0, 1>>
    /\ look.FM[1].rows = <<0, 1>>

--------------------------------------------------------------------------
(* Properties of two objects *)

\* The constructor arguments a and b are the same.
SameArguments(a, b) ==
    /\ a.mode = b.mode
    /\ a.cohort = b.cohort
    /\ a.dt = b.dt
    /\ a.checkValues = b.checkValues
    /\ a.referenceValues = b.referenceValues
    /\ IF a.mode = "matrix" THEN a.cols = b.cols ELSE a.lp = b.lp

\* C8: two objects constructed with the same arguments and asked for the
\* same days end the same way and return the same trace.
C8_Deterministic ==
    (Done(1) /\ Done(2) /\ SameArguments(args[1], args[2])
        /\ asked[1] = asked[2]) =>
        /\ pc[1] = pc[2]
        /\ ret[1] = ret[2]

\* C8 witness: both objects were built from an intake matrix, with
\* different contents of the members the constructor leaves unset, and
\* both returned a trace of two steps.
C8_Witness ==
    /\ pc[1] = "returned" /\ pc[2] = "returned"
    /\ args[1].mode = "matrix"
    /\ SameArguments(args[1], args[2])
    /\ args[1].garbage # args[2].garbage
    /\ Len(ret[2].Time) = 3

\* Individual pos of object 2 is the individual of object 1: same
\* age, sex, BMI category, initial masses, intake, dt, reference variant.
SameIndividual(pos) ==
    /\ args[2].cohort[pos] = args[1].cohort[1]
    /\ args[2].mode = args[1].mode
    /\ args[2].dt = args[1].dt
    /\ args[2].referenceValues = args[1].referenceValues
    /\ IF args[1].mode = "matrix"
       THEN args[2].cols[pos] = args[1].cols[1]
       ELSE args[2].lp = args[1].lp

\* C7 (as the specification states it): an individual simulated alone and
\* the same individual simulated in a larger cohort get the same
\* trajectory, at whatever position and whatever the other members are.
C7_NoCoupling ==
    (Done(1) /\ Done(2) /\ Len(args[1].cohort) = 1 /\ asked[1] = asked[2]) =>
        \A pos \in 1..Len(args[2].cohort) :
            SameIndividual(pos) =>
                /\ pc[1] = pc[2]
                /\ pc[1] = "returned" =>
                      \A i \in 1..Len(ret[1].Time) :
                          /\ ret[2].Age[i][pos] = ret[1].Age[i][1]
                          /\ ret[2].Fat_Free_Mass[i][pos] =
                                 ret[1].Fat_Free_Mass[i][1]
                          /\ ret[2].Fat_Mass[i][pos] = ret[1].Fat_Mass[i][1]
                          /\ ret[2].Body_Weight[i][pos] =
                                 ret[1].Body_Weight[i][1]


--------------------------------------------------------------------------
(* Properties of the intake read by the stages *)

\* The row floor(365*(t - age0)/dt) worked out from individual k's own age
\* t[k] and own starting age.
OwnRow(o, t, k) ==
    fFloor(fDiv(fMul(Dec(3650, 10), fSub(t[k], o.age[k])), o.dt))

\* C11 (as the specification states it): with an intake matrix, at each
\* of the four dMass calls of a step the row of EIntake read for
\* individual k is floor(365*(t_k - age0_k)/dt), from k's own ages, and
\* the intake used is that row's entry in column k.
C11_OwnStartingAge ==
    \A j \in Insts :
        (pc[j] = "loop" /\ Len(stage[j]) = 4
            /\ ~obj[j].generalized_logistic) =>
            \A s \in 1..4 : \A k \in 1..obj[j].nind :
                /\ Intake_timeval(obj[j], stage[j][s].t) =
                       OwnRow(obj[j], stage[j][s].t, k)
                /\ OwnRow(obj[j], stage[j][s].t, k) + 1
                       \in 1..Len(obj[j].EIntake)
                /\ Intake(obj[j], stage[j][s].t, k) =
                       obj[j].EIntake[OwnRow(obj[j], stage[j][s].t, k) + 1][k]


--------------------------------------------------------------------------
(* Properties of the object across calls of rk4 *)

\* C12: no step of rk4 (entering it, an iteration, returning, leaving it
\* by an exception) changes a member of the object: the intake variant
\* flag, age, FFM, FM, dt, the intake matrix, the logistic parameters, the
\* reference variant and the parameters built from sex stay what the
\* constructor made them; and a call of rk4 on an object that has already
\* returned a trace starts from the constructor's ages and masses again.
C12_ObjectUnchanged ==
    [][\A j \in Insts :
          /\ pc[j] # "none" =>
                /\ obj'[j] = obj[j]
                /\ obj'[j] = Child(args[j])
          /\ (pc[j] = "returned" /\ pc'[j] = "loop") =>
                /\ rk'[j].AGE[1] = Column(args[j].cohort, "age")
                /\ rk'[j].ModelFFM[1] = Column(args[j].cohort, "FFM")
                /\ rk'[j].ModelFM[1] = Column(args[j].cohort, "FM")
                /\ rk'[j].i = 1
    ]_vars

\* C12 witness: rk4 has returned a trace of three steps whose last masses
\* are not the initial ones, and the object still holds the initial ones.
C12_Witness ==
    /\ pc[1] = "returned"
    /\ Len(ret[1].Time) = 4
    /\ ret[1].Fat_Free_Mass[4] # ret[1].Fat_Free_Mass[1]
    /\ obj[1].FFM = ret[1].Fat_Free_Mass[1]
    /\ obj[1].FFM = Column(args[1].cohort, "FFM")


--------------------------------------------------------------------------
(* Properties of the curves inside the rate function *)

\* The reference intake worked out with Growth_impact and EB_impact, and
\* the expenditure and the rates of change that follow from it, with
\* Growth_dynamic as the growth term of Expenditure and dMass.
IntakeReference_impact(o, k, tk) ==
    IntakeReference_locals(o, k, EB_impact(o, k, tk), FFMReference(o, k, tk),
                           FMReference(o, k, tk), Delta(o, k, tk),
                           Growth_impact(o, k, tk))

Expenditure_impact(o, t, k, FFMk, FMk) ==
    Expenditure_locals(o, k, FFMk, FMk, Delta(o, k, t[k]),
                       IntakeReference_impact(o, k, t[k]), Intake(o, t, k),
                       cP(o, FFMk, FMk), cRhoFFM(FFMk),
                       Growth_dynamic(o, k, t[k]))

dMass_impact(o, a, k) ==
    dMass_column(o, a.t, k, cRhoFFM(a.FFM[k]), cP(o, a.FFM[k], a.FM[k]),
                 Growth_dynamic(o, k, a.t[k]),
                 Expenditure_impact(o, a.t, k, a.FFM[k], a.FM[k]))

\* C13 (as the specification states it): the rates dMass returns at each
\* stage are those of a reference intake that evaluates the growth-impact
\* and the energy-balance-impact curve, with the growth-dynamic curve as
\* the growth term of the rate function.
C13_ImpactCurvesInReference ==
    \A j \in Insts :
        (pc[j] = "loop" /\ Len(stage[j]) = 4) =>
            \A k \in 1..obj[j].nind :
                /\ rk[j].k1[k] = dMass_impact(obj[j], stage[j][1], k)
                /\ rk[j].k2[k] = dMass_impact(obj[j], stage[j][2], k)
                /\ rk[j].k3[k] = dMass_impact(obj[j], stage[j][3], k)
                /\ rk[j].k4[k] = dMass_impact(obj[j], stage[j][4], k)


--------------------------------------------------------------------------
(* Properties of the rows of the intake matrix read during a run *)

\* The row of EIntake read by dMass call s of the last iteration made.
RowRead(j, s) == Intake_timeval(obj[j], stage[j][s].t)

\* C14 (as the specification states it): with an intake matrix, every row
\* read during rk4(days) lies in 0..floor(days/dt) and the fourth dMass
\* call of the last iteration reads row floor(days/dt); so rk4 is never
\* left by the index exception when the matrix has floor(days/dt) + 1
\* rows or more, and always is when it has floor(days/dt) rows.
C14_RowsWithinHorizon ==
    \A j \in Insts :
        /\ (pc[j] = "loop" /\ Len(stage[j]) = 4
                /\ ~obj[j].generalized_logistic) =>
              /\ \A s \in 1..4 : RowRead(j, s) \in 0..Steps(j)
              /\ rk[j].i = rk[j].nsims + 1 => RowRead(j, 4) = Steps(j)
        /\ pc[j] = "error" => Len(obj[j].EIntake) < Steps(j) + 1
        /\ (pc[j] = "returned" /\ ~obj[j].generalized_logistic
                /\ Steps(j) >= 1) =>
              Len(obj[j].EIntake) # Steps(j)

=============================================================================
